---- MODULE Spec2Model ----
(***************************************************************************)
(* The lexer of c_compiler-rs (src/compiler/src/main.rs): lex creates a    *)
(* Tokenizer and runs tokenize over a line-oriented stream.  A character   *)
(* is its Unicode code point, a string is a sequence of characters, and a  *)
(* u64 is four 16-bit limbs, least significant first, so that the          *)
(* accumulation of an integer literal keeps its 64-bit width.  The stream  *)
(* is a sequence of characters, with InvalidUtf8 standing for bytes that   *)
(* are not the encoding of any character.                                  *)
(***************************************************************************)
EXTENDS Integers, Sequences, FiniteSets, TLC

VARIABLES
    stream,           \* the input stream: its characters, "\n" included, and InvalidUtf8
    overflow_checks,  \* the build: TRUE panics on u64 overflow, FALSE wraps
    lineno,           \* lines taken from stream.lines() so far
    ci,               \* characters of the current line taken from chars
    state,            \* Tokenizer.state
    tokens,           \* the local Vec<Token> of tokenize
    origin,           \* history: for each token, the <<line, column>> of the step that pushed it
    pc,               \* "lines": at the for loop; "chars": at the while loop; "done"
    ret,              \* what the call returned
    calls             \* tokenize calls made on this Tokenizer so far

vars == <<stream, overflow_checks, lineno, ci, state, tokens, origin, pc, ret, calls>>

----------------------------------------------------------------------------
(* Bounds of the inputs *)

MaxLen == 3
MaxPunctLen == 3
MaxDigits == 3
MaxHexDigits == 2
MaxIdentLen == 3
MaxCalls == 2

----------------------------------------------------------------------------
(* Characters *)

\* the code points first, first + 1, ... of the characters of s
Segment(s, first) ==
    [c \in {SubSeq(s, i, i) : i \in 1..Len(s)} |->
        first - 1 + (CHOOSE i \in 1..Len(s) : SubSeq(s, i, i) = c)]

\* the code points of the ASCII characters that are written as such below
CodePointOf ==
    ("\t" :> 9) @@ ("\n" :> 10) @@ ("\f" :> 12) @@ ("\r" :> 13) @@ Segment(" !", 32)
        @@ Segment("#$%&'()*+,-./0123456789:;<=>?@ABCDEFGHIJKLMNOPQRSTUVWXYZ[", 35)
        @@ Segment("]^_", 93) @@ Segment("abcdefghijklmnopqrstuvwxyz{|}~", 97)

\* the character, the string and the set of characters written as a TLA+ string
Cp(c) == CodePointOf[c]

Str(s) == [i \in 1..Len(s) |-> Cp(SubSeq(s, i, i))]

Chars(s) == {Cp(SubSeq(s, i, i)) : i \in 1..Len(s)}

Range(q) == {q[i] : i \in DOMAIN q}

IndexOf(q, c) == CHOOSE i \in DOMAIN q : q[i] = c

DecDigits == Str("0123456789")

LowerLetters == Str("abcdefghijklmnopqrstuvwxyz")

UpperLetters == Str("ABCDEFGHIJKLMNOPQRSTUVWXYZ")

Punctuation == Chars("{}();")

\* ch lies in one of the ranges <<first, last>> of the table
InRanges(ch, table) == \E i \in DOMAIN table : table[i][1] <= ch /\ ch <= table[i][2]

\* core::unicode::Alphabetic: the ranges beyond ASCII of the Unicode property
\* Alphabetic.  The standard library carries the table of one version of
\* Unicode; this is the table of Unicode 17.0, of 147369 characters beyond the
\* 52 ASCII letters.
Alphabetic ==
    << <<\HAA, \HAA>>, <<\HB5, \HB5>>, <<\HBA, \HBA>>, <<\HC0, \HD6>>,
       <<\HD8, \HF6>>, <<\HF8, \H2C1>>, <<\H2C6, \H2D1>>, <<\H2E0, \H2E4>>,
       <<\H2EC, \H2EC>>, <<\H2EE, \H2EE>>, <<\H345, \H345>>, <<\H363, \H374>>,
       <<\H376, \H377>>, <<\H37A, \H37D>>, <<\H37F, \H37F>>, <<\H386, \H386>>,
       <<\H388, \H38A>>, <<\H38C, \H38C>>, <<\H38E, \H3A1>>, <<\H3A3, \H3F5>>,
       <<\H3F7, \H481>>, <<\H48A, \H52F>>, <<\H531, \H556>>, <<\H559, \H559>>,
       <<\H560, \H588>>, <<\H5B0, \H5BD>>, <<\H5BF, \H5BF>>, <<\H5C1, \H5C2>>,
       <<\H5C4, \H5C5>>, <<\H5C7, \H5C7>>, <<\H5D0, \H5EA>>, <<\H5EF, \H5F2>>,
       <<\H610, \H61A>>, <<\H620, \H657>>, <<\H659, \H65F>>, <<\H66E, \H6D3>>,
       <<\H6D5, \H6DC>>, <<\H6E1, \H6E8>>, <<\H6ED, \H6EF>>, <<\H6FA, \H6FC>>,
       <<\H6FF, \H6FF>>, <<\H710, \H73F>>, <<\H74D, \H7B1>>, <<\H7CA, \H7EA>>,
       <<\H7F4, \H7F5>>, <<\H7FA, \H7FA>>, <<\H800, \H817>>, <<\H81A, \H82C>>,
       <<\H840, \H858>>, <<\H860, \H86A>>, <<\H870, \H887>>, <<\H889, \H88F>>,
       <<\H897, \H897>>, <<\H8A0, \H8C9>>, <<\H8D4, \H8DF>>, <<\H8E3, \H8E9>>,
       <<\H8F0, \H93B>>, <<\H93D, \H94C>>, <<\H94E, \H950>>, <<\H955, \H963>>,
       <<\H971, \H983>>, <<\H985, \H98C>>, <<\H98F, \H990>>, <<\H993, \H9A8>>,
       <<\H9AA, \H9B0>>, <<\H9B2, \H9B2>>, <<\H9B6, \H9B9>>, <<\H9BD, \H9C4>>,
       <<\H9C7, \H9C8>>, <<\H9CB, \H9CC>>, <<\H9CE, \H9CE>>, <<\H9D7, \H9D7>>,
       <<\H9DC, \H9DD>>, <<\H9DF, \H9E3>>, <<\H9F0, \H9F1>>, <<\H9FC, \H9FC>>,
       <<\HA01, \HA03>>, <<\HA05, \HA0A>>, <<\HA0F, \HA10>>, <<\HA13, \HA28>>,
       <<\HA2A, \HA30>>, <<\HA32, \HA33>>, <<\HA35, \HA36>>, <<\HA38, \HA39>>,
       <<\HA3E, \HA42>>, <<\HA47, \HA48>>, <<\HA4B, \HA4C>>, <<\HA51, \HA51>>,
       <<\HA59, \HA5C>>, <<\HA5E, \HA5E>>, <<\HA70, \HA75>>, <<\HA81, \HA83>>,
       <<\HA85, \HA8D>>, <<\HA8F, \HA91>>, <<\HA93, \HAA8>>, <<\HAAA, \HAB0>>,
       <<\HAB2, \HAB3>>, <<\HAB5, \HAB9>>, <<\HABD, \HAC5>>, <<\HAC7, \HAC9>>,
       <<\HACB, \HACC>>, <<\HAD0, \HAD0>>, <<\HAE0, \HAE3>>, <<\HAF9, \HAFC>>,
       <<\HB01, \HB03>>, <<\HB05, \HB0C>>, <<\HB0F, \HB10>>, <<\HB13, \HB28>>,
       <<\HB2A, \HB30>>, <<\HB32, \HB33>>, <<\HB35, \HB39>>, <<\HB3D, \HB44>>,
       <<\HB47, \HB48>>, <<\HB4B, \HB4C>>, <<\HB56, \HB57>>, <<\HB5C, \HB5D>>,
       <<\HB5F, \HB63>>, <<\HB71, \HB71>>, <<\HB82, \HB83>>, <<\HB85, \HB8A>>,
       <<\HB8E, \HB90>>, <<\HB92, \HB95>>, <<\HB99, \HB9A>>, <<\HB9C, \HB9C>>,
       <<\HB9E, \HB9F>>, <<\HBA3, \HBA4>>, <<\HBA8, \HBAA>>, <<\HBAE, \HBB9>>,
       <<\HBBE, \HBC2>>, <<\HBC6, \HBC8>>, <<\HBCA, \HBCC>>, <<\HBD0, \HBD0>>,
       <<\HBD7, \HBD7>>, <<\HC00, \HC0C>>, <<\HC0E, \HC10>>, <<\HC12, \HC28>>,
       <<\HC2A, \HC39>>, <<\HC3D, \HC44>>, <<\HC46, \HC48>>, <<\HC4A, \HC4C>>,
       <<\HC55, \HC56>>, <<\HC58, \HC5A>>, <<\HC5C, \HC5D>>, <<\HC60, \HC63>>,
       <<\HC80, \HC83>>, <<\HC85, \HC8C>>, <<\HC8E, \HC90>>, <<\HC92, \HCA8>>,
       <<\HCAA, \HCB3>>, <<\HCB5, \HCB9>>, <<\HCBD, \HCC4>>, <<\HCC6, \HCC8>>,
       <<\HCCA, \HCCC>>, <<\HCD5, \HCD6>>, <<\HCDC, \HCDE>>, <<\HCE0, \HCE3>>,
       <<\HCF1, \HCF3>>, <<\HD00, \HD0C>>, <<\HD0E, \HD10>>, <<\HD12, \HD3A>>,
       <<\HD3D, \HD44>>, <<\HD46, \HD48>>, <<\HD4A, \HD4C>>, <<\HD4E, \HD4E>>,
       <<\HD54, \HD57>>, <<\HD5F, \HD63>>, <<\HD7A, \HD7F>>, <<\HD81, \HD83>>,
       <<\HD85, \HD96>>, <<\HD9A, \HDB1>>, <<\HDB3, \HDBB>>, <<\HDBD, \HDBD>>,
       <<\HDC0, \HDC6>>, <<\HDCF, \HDD4>>, <<\HDD6, \HDD6>>, <<\HDD8, \HDDF>>,
       <<\HDF2, \HDF3>>, <<\HE01, \HE3A>>, <<\HE40, \HE46>>, <<\HE4D, \HE4D>>,
       <<\HE81, \HE82>>, <<\HE84, \HE84>>, <<\HE86, \HE8A>>, <<\HE8C, \HEA3>>,
       <<\HEA5, \HEA5>>, <<\HEA7, \HEB9>>, <<\HEBB, \HEBD>>, <<\HEC0, \HEC4>>,
       <<\HEC6, \HEC6>>, <<\HECD, \HECD>>, <<\HEDC, \HEDF>>, <<\HF00, \HF00>>,
       <<\HF40, \HF47>>, <<\HF49, \HF6C>>, <<\HF71, \HF83>>, <<\HF88, \HF97>>,
       <<\HF99, \HFBC>>, <<\H1000, \H1036>>, <<\H1038, \H1038>>, <<\H103B, \H103F>>,
       <<\H1050, \H108F>>, <<\H109A, \H109D>>, <<\H10A0, \H10C5>>, <<\H10C7, \H10C7>>,
       <<\H10CD, \H10CD>>, <<\H10D0, \H10FA>>, <<\H10FC, \H1248>>, <<\H124A, \H124D>>,
       <<\H1250, \H1256>>, <<\H1258, \H1258>>, <<\H125A, \H125D>>, <<\H1260, \H1288>>,
       <<\H128A, \H128D>>, <<\H1290, \H12B0>>, <<\H12B2, \H12B5>>, <<\H12B8, \H12BE>>,
       <<\H12C0, \H12C0>>, <<\H12C2, \H12C5>>, <<\H12C8, \H12D6>>, <<\H12D8, \H1310>>,
       <<\H1312, \H1315>>, <<\H1318, \H135A>>, <<\H1380, \H138F>>, <<\H13A0, \H13F5>>,
       <<\H13F8, \H13FD>>, <<\H1401, \H166C>>, <<\H166F, \H167F>>, <<\H1681, \H169A>>,
       <<\H16A0, \H16EA>>, <<\H16EE, \H16F8>>, <<\H1700, \H1713>>, <<\H171F, \H1733>>,
       <<\H1740, \H1753>>, <<\H1760, \H176C>>, <<\H176E, \H1770>>, <<\H1772, \H1773>>,
       <<\H1780, \H17B3>>, <<\H17B6, \H17C8>>, <<\H17D7, \H17D7>>, <<\H17DC, \H17DC>>,
       <<\H1820, \H1878>>, <<\H1880, \H18AA>>, <<\H18B0, \H18F5>>, <<\H1900, \H191E>>,
       <<\H1920, \H192B>>, <<\H1930, \H1938>>, <<\H1950, \H196D>>, <<\H1970, \H1974>>,
       <<\H1980, \H19AB>>, <<\H19B0, \H19C9>>, <<\H1A00, \H1A1B>>, <<\H1A20, \H1A5E>>,
       <<\H1A61, \H1A74>>, <<\H1AA7, \H1AA7>>, <<\H1ABF, \H1AC0>>, <<\H1ACC, \H1ACE>>,
       <<\H1B00, \H1B33>>, <<\H1B35, \H1B43>>, <<\H1B45, \H1B4C>>, <<\H1B80, \H1BA9>>,
       <<\H1BAC, \H1BAF>>, <<\H1BBA, \H1BE5>>, <<\H1BE7, \H1BF1>>, <<\H1C00, \H1C36>>,
       <<\H1C4D, \H1C4F>>, <<\H1C5A, \H1C7D>>, <<\H1C80, \H1C8A>>, <<\H1C90, \H1CBA>>,
       <<\H1CBD, \H1CBF>>, <<\H1CE9, \H1CEC>>, <<\H1CEE, \H1CF3>>, <<\H1CF5, \H1CF6>>,
       <<\H1CFA, \H1CFA>>, <<\H1D00, \H1DBF>>, <<\H1DD3, \H1DF4>>, <<\H1E00, \H1F15>>,
       <<\H1F18, \H1F1D>>, <<\H1F20, \H1F45>>, <<\H1F48, \H1F4D>>, <<\H1F50, \H1F57>>,
       <<\H1F59, \H1F59>>, <<\H1F5B, \H1F5B>>, <<\H1F5D, \H1F5D>>, <<\H1F5F, \H1F7D>>,
       <<\H1F80, \H1FB4>>, <<\H1FB6, \H1FBC>>, <<\H1FBE, \H1FBE>>, <<\H1FC2, \H1FC4>>,
       <<\H1FC6, \H1FCC>>, <<\H1FD0, \H1FD3>>, <<\H1FD6, \H1FDB>>, <<\H1FE0, \H1FEC>>,
       <<\H1FF2, \H1FF4>>, <<\H1FF6, \H1FFC>>, <<\H2071, \H2071>>, <<\H207F, \H207F>>,
       <<\H2090, \H209C>>, <<\H2102, \H2102>>, <<\H2107, \H2107>>, <<\H210A, \H2113>>,
       <<\H2115, \H2115>>, <<\H2119, \H211D>>, <<\H2124, \H2124>>, <<\H2126, \H2126>>,
       <<\H2128, \H2128>>, <<\H212A, \H212D>>, <<\H212F, \H2139>>, <<\H213C, \H213F>>,
       <<\H2145, \H2149>>, <<\H214E, \H214E>>, <<\H2160, \H2188>>, <<\H24B6, \H24E9>>,
       <<\H2C00, \H2CE4>>, <<\H2CEB, \H2CEE>>, <<\H2CF2, \H2CF3>>, <<\H2D00, \H2D25>>,
       <<\H2D27, \H2D27>>, <<\H2D2D, \H2D2D>>, <<\H2D30, \H2D67>>, <<\H2D6F, \H2D6F>>,
       <<\H2D80, \H2D96>>, <<\H2DA0, \H2DA6>>, <<\H2DA8, \H2DAE>>, <<\H2DB0, \H2DB6>>,
       <<\H2DB8, \H2DBE>>, <<\H2DC0, \H2DC6>>, <<\H2DC8, \H2DCE>>, <<\H2DD0, \H2DD6>>,
       <<\H2DD8, \H2DDE>>, <<\H2DE0, \H2DFF>>, <<\H2E2F, \H2E2F>>, <<\H3005, \H3007>>,
       <<\H3021, \H3029>>, <<\H3031, \H3035>>, <<\H3038, \H303C>>, <<\H3041, \H3096>>,
       <<\H309D, \H309F>>, <<\H30A1, \H30FA>>, <<\H30FC, \H30FF>>, <<\H3105, \H312F>>,
       <<\H3131, \H318E>>, <<\H31A0, \H31BF>>, <<\H31F0, \H31FF>>, <<\H3400, \H4DBF>>,
       <<\H4E00, \HA48C>>, <<\HA4D0, \HA4FD>>, <<\HA500, \HA60C>>, <<\HA610, \HA61F>>,
       <<\HA62A, \HA62B>>, <<\HA640, \HA66E>>, <<\HA674, \HA67B>>, <<\HA67F, \HA6EF>>,
       <<\HA717, \HA71F>>, <<\HA722, \HA788>>, <<\HA78B, \HA7DC>>, <<\HA7F1, \HA805>>,
       <<\HA807, \HA827>>, <<\HA840, \HA873>>, <<\HA880, \HA8C3>>, <<\HA8C5, \HA8C5>>,
       <<\HA8F2, \HA8F7>>, <<\HA8FB, \HA8FB>>, <<\HA8FD, \HA8FF>>, <<\HA90A, \HA92A>>,
       <<\HA930, \HA952>>, <<\HA960, \HA97C>>, <<\HA980, \HA9B2>>, <<\HA9B4, \HA9BF>>,
       <<\HA9CF, \HA9CF>>, <<\HA9E0, \HA9EF>>, <<\HA9FA, \HA9FE>>, <<\HAA00, \HAA36>>,
       <<\HAA40, \HAA4D>>, <<\HAA60, \HAA76>>, <<\HAA7A, \HAABE>>, <<\HAAC0, \HAAC0>>,
       <<\HAAC2, \HAAC2>>, <<\HAADB, \HAADD>>, <<\HAAE0, \HAAEF>>, <<\HAAF2, \HAAF5>>,
       <<\HAB01, \HAB06>>, <<\HAB09, \HAB0E>>, <<\HAB11, \HAB16>>, <<\HAB20, \HAB26>>,
       <<\HAB28, \HAB2E>>, <<\HAB30, \HAB5A>>, <<\HAB5C, \HAB69>>, <<\HAB70, \HABEA>>,
       <<\HAC00, \HD7A3>>, <<\HD7B0, \HD7C6>>, <<\HD7CB, \HD7FB>>, <<\HF900, \HFA6D>>,
       <<\HFA70, \HFAD9>>, <<\HFB00, \HFB06>>, <<\HFB13, \HFB17>>, <<\HFB1D, \HFB28>>,
       <<\HFB2A, \HFB36>>, <<\HFB38, \HFB3C>>, <<\HFB3E, \HFB3E>>, <<\HFB40, \HFB41>>,
       <<\HFB43, \HFB44>>, <<\HFB46, \HFBB1>>, <<\HFBD3, \HFD3D>>, <<\HFD50, \HFD8F>>,
       <<\HFD92, \HFDC7>>, <<\HFDF0, \HFDFB>>, <<\HFE70, \HFE74>>, <<\HFE76, \HFEFC>>,
       <<\HFF21, \HFF3A>>, <<\HFF41, \HFF5A>>, <<\HFF66, \HFFBE>>, <<\HFFC2, \HFFC7>>,
       <<\HFFCA, \HFFCF>>, <<\HFFD2, \HFFD7>>, <<\HFFDA, \HFFDC>>, <<\H10000, \H1000B>>,
       <<\H1000D, \H10026>>, <<\H10028, \H1003A>>, <<\H1003C, \H1003D>>, <<\H1003F, \H1004D>>,
       <<\H10050, \H1005D>>, <<\H10080, \H100FA>>, <<\H10140, \H10174>>, <<\H10280, \H1029C>>,
       <<\H102A0, \H102D0>>, <<\H10300, \H1031F>>, <<\H1032D, \H1034A>>, <<\H10350, \H1037A>>,
       <<\H10380, \H1039D>>, <<\H103A0, \H103C3>>, <<\H103C8, \H103CF>>, <<\H103D1, \H103D5>>,
       <<\H10400, \H1049D>>, <<\H104B0, \H104D3>>, <<\H104D8, \H104FB>>, <<\H10500, \H10527>>,
       <<\H10530, \H10563>>, <<\H10570, \H1057A>>, <<\H1057C, \H1058A>>, <<\H1058C, \H10592>>,
       <<\H10594, \H10595>>, <<\H10597, \H105A1>>, <<\H105A3, \H105B1>>, <<\H105B3, \H105B9>>,
       <<\H105BB, \H105BC>>, <<\H105C0, \H105F3>>, <<\H10600, \H10736>>, <<\H10740, \H10755>>,
       <<\H10760, \H10767>>, <<\H10780, \H10785>>, <<\H10787, \H107B0>>, <<\H107B2, \H107BA>>,
       <<\H10800, \H10805>>, <<\H10808, \H10808>>, <<\H1080A, \H10835>>, <<\H10837, \H10838>>,
       <<\H1083C, \H1083C>>, <<\H1083F, \H10855>>, <<\H10860, \H10876>>, <<\H10880, \H1089E>>,
       <<\H108E0, \H108F2>>, <<\H108F4, \H108F5>>, <<\H10900, \H10915>>, <<\H10920, \H10939>>,
       <<\H10940, \H10959>>, <<\H10980, \H109B7>>, <<\H109BE, \H109BF>>, <<\H10A00, \H10A03>>,
       <<\H10A05, \H10A06>>, <<\H10A0C, \H10A13>>, <<\H10A15, \H10A17>>, <<\H10A19, \H10A35>>,
       <<\H10A60, \H10A7C>>, <<\H10A80, \H10A9C>>, <<\H10AC0, \H10AC7>>, <<\H10AC9, \H10AE4>>,
       <<\H10B00, \H10B35>>, <<\H10B40, \H10B55>>, <<\H10B60, \H10B72>>, <<\H10B80, \H10B91>>,
       <<\H10C00, \H10C48>>, <<\H10C80, \H10CB2>>, <<\H10CC0, \H10CF2>>, <<\H10D00, \H10D27>>,
       <<\H10D4A, \H10D65>>, <<\H10D69, \H10D69>>, <<\H10D6F, \H10D85>>, <<\H10E80, \H10EA9>>,
       <<\H10EAB, \H10EAC>>, <<\H10EB0, \H10EB1>>, <<\H10EC2, \H10EC7>>, <<\H10EFA, \H10EFC>>,
       <<\H10F00, \H10F1C>>, <<\H10F27, \H10F27>>, <<\H10F30, \H10F45>>, <<\H10F70, \H10F81>>,
       <<\H10FB0, \H10FC4>>, <<\H10FE0, \H10FF6>>, <<\H11000, \H11045>>, <<\H11071, \H11075>>,
       <<\H11080, \H110B8>>, <<\H110C2, \H110C2>>, <<\H110D0, \H110E8>>, <<\H11100, \H11132>>,
       <<\H11144, \H11147>>, <<\H11150, \H11172>>, <<\H11176, \H11176>>, <<\H11180, \H111BF>>,
       <<\H111C1, \H111C4>>, <<\H111CE, \H111CF>>, <<\H111DA, \H111DA>>, <<\H111DC, \H111DC>>,
       <<\H11200, \H11211>>, <<\H11213, \H11234>>, <<\H11237, \H11237>>, <<\H1123E, \H11241>>,
       <<\H11280, \H11286>>, <<\H11288, \H11288>>, <<\H1128A, \H1128D>>, <<\H1128F, \H1129D>>,
       <<\H1129F, \H112A8>>, <<\H112B0, \H112E8>>, <<\H11300, \H11303>>, <<\H11305, \H1130C>>,
       <<\H1130F, \H11310>>, <<\H11313, \H11328>>, <<\H1132A, \H11330>>, <<\H11332, \H11333>>,
       <<\H11335, \H11339>>, <<\H1133D, \H11344>>, <<\H11347, \H11348>>, <<\H1134B, \H1134C>>,
       <<\H11350, \H11350>>, <<\H11357, \H11357>>, <<\H1135D, \H11363>>, <<\H11380, \H11389>>,
       <<\H1138B, \H1138B>>, <<\H1138E, \H1138E>>, <<\H11390, \H113B5>>, <<\H113B7, \H113C0>>,
       <<\H113C2, \H113C2>>, <<\H113C5, \H113C5>>, <<\H113C7, \H113CA>>, <<\H113CC, \H113CD>>,
       <<\H113D1, \H113D1>>, <<\H113D3, \H113D3>>, <<\H11400, \H11441>>, <<\H11443, \H11445>>,
       <<\H11447, \H1144A>>, <<\H1145F, \H11461>>, <<\H11480, \H114C1>>, <<\H114C4, \H114C5>>,
       <<\H114C7, \H114C7>>, <<\H11580, \H115B5>>, <<\H115B8, \H115BE>>, <<\H115D8, \H115DD>>,
       <<\H11600, \H1163E>>, <<\H11640, \H11640>>, <<\H11644, \H11644>>, <<\H11680, \H116B5>>,
       <<\H116B8, \H116B8>>, <<\H11700, \H1171A>>, <<\H1171D, \H1172A>>, <<\H11740, \H11746>>,
       <<\H11800, \H11838>>, <<\H118A0, \H118DF>>, <<\H118FF, \H11906>>, <<\H11909, \H11909>>,
       <<\H1190C, \H11913>>, <<\H11915, \H11916>>, <<\H11918, \H11935>>, <<\H11937, \H11938>>,
       <<\H1193B, \H1193C>>, <<\H1193F, \H11942>>, <<\H119A0, \H119A7>>, <<\H119AA, \H119D7>>,
       <<\H119DA, \H119DF>>, <<\H119E1, \H119E1>>, <<\H119E3, \H119E4>>, <<\H11A00, \H11A32>>,
       <<\H11A35, \H11A3E>>, <<\H11A50, \H11A97>>, <<\H11A9D, \H11A9D>>, <<\H11AB0, \H11AF8>>,
       <<\H11B60, \H11B67>>, <<\H11BC0, \H11BE0>>, <<\H11C00, \H11C08>>, <<\H11C0A, \H11C36>>,
       <<\H11C38, \H11C3E>>, <<\H11C40, \H11C40>>, <<\H11C72, \H11C8F>>, <<\H11C92, \H11CA7>>,
       <<\H11CA9, \H11CB6>>, <<\H11D00, \H11D06>>, <<\H11D08, \H11D09>>, <<\H11D0B, \H11D36>>,
       <<\H11D3A, \H11D3A>>, <<\H11D3C, \H11D3D>>, <<\H11D3F, \H11D41>>, <<\H11D43, \H11D43>>,
       <<\H11D46, \H11D47>>, <<\H11D60, \H11D65>>, <<\H11D67, \H11D68>>, <<\H11D6A, \H11D8E>>,
       <<\H11D90, \H11D91>>, <<\H11D93, \H11D96>>, <<\H11D98, \H11D98>>, <<\H11DB0, \H11DDB>>,
       <<\H11EE0, \H11EF6>>, <<\H11F00, \H11F10>>, <<\H11F12, \H11F3A>>, <<\H11F3E, \H11F40>>,
       <<\H11FB0, \H11FB0>>, <<\H12000, \H12399>>, <<\H12400, \H1246E>>, <<\H12480, \H12543>>,
       <<\H12F90, \H12FF0>>, <<\H13000, \H1342F>>, <<\H13441, \H13446>>, <<\H13460, \H143FA>>,
       <<\H14400, \H14646>>, <<\H16100, \H1612E>>, <<\H16800, \H16A38>>, <<\H16A40, \H16A5E>>,
       <<\H16A70, \H16ABE>>, <<\H16AD0, \H16AED>>, <<\H16B00, \H16B2F>>, <<\H16B40, \H16B43>>,
       <<\H16B63, \H16B77>>, <<\H16B7D, \H16B8F>>, <<\H16D40, \H16D6C>>, <<\H16E40, \H16E7F>>,
       <<\H16EA0, \H16EB8>>, <<\H16EBB, \H16ED3>>, <<\H16F00, \H16F4A>>, <<\H16F4F, \H16F87>>,
       <<\H16F8F, \H16F9F>>, <<\H16FE0, \H16FE1>>, <<\H16FE3, \H16FE3>>, <<\H16FF0, \H16FF6>>,
       <<\H17000, \H18CD5>>, <<\H18CFF, \H18D1E>>, <<\H18D80, \H18DF2>>, <<\H1AFF0, \H1AFF3>>,
       <<\H1AFF5, \H1AFFB>>, <<\H1AFFD, \H1AFFE>>, <<\H1B000, \H1B122>>, <<\H1B132, \H1B132>>,
       <<\H1B150, \H1B152>>, <<\H1B155, \H1B155>>, <<\H1B164, \H1B167>>, <<\H1B170, \H1B2FB>>,
       <<\H1BC00, \H1BC6A>>, <<\H1BC70, \H1BC7C>>, <<\H1BC80, \H1BC88>>, <<\H1BC90, \H1BC99>>,
       <<\H1BC9E, \H1BC9E>>, <<\H1D400, \H1D454>>, <<\H1D456, \H1D49C>>, <<\H1D49E, \H1D49F>>,
       <<\H1D4A2, \H1D4A2>>, <<\H1D4A5, \H1D4A6>>, <<\H1D4A9, \H1D4AC>>, <<\H1D4AE, \H1D4B9>>,
       <<\H1D4BB, \H1D4BB>>, <<\H1D4BD, \H1D4C3>>, <<\H1D4C5, \H1D505>>, <<\H1D507, \H1D50A>>,
       <<\H1D50D, \H1D514>>, <<\H1D516, \H1D51C>>, <<\H1D51E, \H1D539>>, <<\H1D53B, \H1D53E>>,
       <<\H1D540, \H1D544>>, <<\H1D546, \H1D546>>, <<\H1D54A, \H1D550>>, <<\H1D552, \H1D6A5>>,
       <<\H1D6A8, \H1D6C0>>, <<\H1D6C2, \H1D6DA>>, <<\H1D6DC, \H1D6FA>>, <<\H1D6FC, \H1D714>>,
       <<\H1D716, \H1D734>>, <<\H1D736, \H1D74E>>, <<\H1D750, \H1D76E>>, <<\H1D770, \H1D788>>,
       <<\H1D78A, \H1D7A8>>, <<\H1D7AA, \H1D7C2>>, <<\H1D7C4, \H1D7CB>>, <<\H1DF00, \H1DF1E>>,
       <<\H1DF25, \H1DF2A>>, <<\H1E000, \H1E006>>, <<\H1E008, \H1E018>>, <<\H1E01B, \H1E021>>,
       <<\H1E023, \H1E024>>, <<\H1E026, \H1E02A>>, <<\H1E030, \H1E06D>>, <<\H1E08F, \H1E08F>>,
       <<\H1E100, \H1E12C>>, <<\H1E137, \H1E13D>>, <<\H1E14E, \H1E14E>>, <<\H1E290, \H1E2AD>>,
       <<\H1E2C0, \H1E2EB>>, <<\H1E4D0, \H1E4EB>>, <<\H1E5D0, \H1E5ED>>, <<\H1E5F0, \H1E5F0>>,
       <<\H1E6C0, \H1E6DE>>, <<\H1E6E0, \H1E6F5>>, <<\H1E6FE, \H1E6FF>>, <<\H1E7E0, \H1E7E6>>,
       <<\H1E7E8, \H1E7EB>>, <<\H1E7ED, \H1E7EE>>, <<\H1E7F0, \H1E7FE>>, <<\H1E800, \H1E8C4>>,
       <<\H1E900, \H1E943>>, <<\H1E947, \H1E947>>, <<\H1E94B, \H1E94B>>, <<\H1EE00, \H1EE03>>,
       <<\H1EE05, \H1EE1F>>, <<\H1EE21, \H1EE22>>, <<\H1EE24, \H1EE24>>, <<\H1EE27, \H1EE27>>,
       <<\H1EE29, \H1EE32>>, <<\H1EE34, \H1EE37>>, <<\H1EE39, \H1EE39>>, <<\H1EE3B, \H1EE3B>>,
       <<\H1EE42, \H1EE42>>, <<\H1EE47, \H1EE47>>, <<\H1EE49, \H1EE49>>, <<\H1EE4B, \H1EE4B>>,
       <<\H1EE4D, \H1EE4F>>, <<\H1EE51, \H1EE52>>, <<\H1EE54, \H1EE54>>, <<\H1EE57, \H1EE57>>,
       <<\H1EE59, \H1EE59>>, <<\H1EE5B, \H1EE5B>>, <<\H1EE5D, \H1EE5D>>, <<\H1EE5F, \H1EE5F>>,
       <<\H1EE61, \H1EE62>>, <<\H1EE64, \H1EE64>>, <<\H1EE67, \H1EE6A>>, <<\H1EE6C, \H1EE72>>,
       <<\H1EE74, \H1EE77>>, <<\H1EE79, \H1EE7C>>, <<\H1EE7E, \H1EE7E>>, <<\H1EE80, \H1EE89>>,
       <<\H1EE8B, \H1EE9B>>, <<\H1EEA1, \H1EEA3>>, <<\H1EEA5, \H1EEA9>>, <<\H1EEAB, \H1EEBB>>,
       <<\H1F130, \H1F149>>, <<\H1F150, \H1F169>>, <<\H1F170, \H1F189>>, <<\H20000, \H2A6DF>>,
       <<\H2A700, \H2B81D>>, <<\H2B820, \H2CEAD>>, <<\H2CEB0, \H2EBE0>>, <<\H2EBF0, \H2EE5D>>,
       <<\H2F800, \H2FA1D>>, <<\H30000, \H3134A>>, <<\H31350, \H33479>> >>

\* core::unicode::N: the ranges beyond ASCII of the general categories Nd, Nl
\* and No, as of Unicode 17.0
N ==
    << <<\HB2, \HB3>>, <<\HB9, \HB9>>, <<\HBC, \HBE>>, <<\H660, \H669>>,
       <<\H6F0, \H6F9>>, <<\H7C0, \H7C9>>, <<\H966, \H96F>>, <<\H9E6, \H9EF>>,
       <<\H9F4, \H9F9>>, <<\HA66, \HA6F>>, <<\HAE6, \HAEF>>, <<\HB66, \HB6F>>,
       <<\HB72, \HB77>>, <<\HBE6, \HBF2>>, <<\HC66, \HC6F>>, <<\HC78, \HC7E>>,
       <<\HCE6, \HCEF>>, <<\HD58, \HD5E>>, <<\HD66, \HD78>>, <<\HDE6, \HDEF>>,
       <<\HE50, \HE59>>, <<\HED0, \HED9>>, <<\HF20, \HF33>>, <<\H1040, \H1049>>,
       <<\H1090, \H1099>>, <<\H1369, \H137C>>, <<\H16EE, \H16F0>>, <<\H17E0, \H17E9>>,
       <<\H17F0, \H17F9>>, <<\H1810, \H1819>>, <<\H1946, \H194F>>, <<\H19D0, \H19DA>>,
       <<\H1A80, \H1A89>>, <<\H1A90, \H1A99>>, <<\H1B50, \H1B59>>, <<\H1BB0, \H1BB9>>,
       <<\H1C40, \H1C49>>, <<\H1C50, \H1C59>>, <<\H2070, \H2070>>, <<\H2074, \H2079>>,
       <<\H2080, \H2089>>, <<\H2150, \H2182>>, <<\H2185, \H2189>>, <<\H2460, \H249B>>,
       <<\H24EA, \H24FF>>, <<\H2776, \H2793>>, <<\H2CFD, \H2CFD>>, <<\H3007, \H3007>>,
       <<\H3021, \H3029>>, <<\H3038, \H303A>>, <<\H3192, \H3195>>, <<\H3220, \H3229>>,
       <<\H3248, \H324F>>, <<\H3251, \H325F>>, <<\H3280, \H3289>>, <<\H32B1, \H32BF>>,
       <<\HA620, \HA629>>, <<\HA6E6, \HA6EF>>, <<\HA830, \HA835>>, <<\HA8D0, \HA8D9>>,
       <<\HA900, \HA909>>, <<\HA9D0, \HA9D9>>, <<\HA9F0, \HA9F9>>, <<\HAA50, \HAA59>>,
       <<\HABF0, \HABF9>>, <<\HFF10, \HFF19>>, <<\H10107, \H10133>>, <<\H10140, \H10178>>,
       <<\H1018A, \H1018B>>, <<\H102E1, \H102FB>>, <<\H10320, \H10323>>, <<\H10341, \H10341>>,
       <<\H1034A, \H1034A>>, <<\H103D1, \H103D5>>, <<\H104A0, \H104A9>>, <<\H10858, \H1085F>>,
       <<\H10879, \H1087F>>, <<\H108A7, \H108AF>>, <<\H108FB, \H108FF>>, <<\H10916, \H1091B>>,
       <<\H109BC, \H109BD>>, <<\H109C0, \H109CF>>, <<\H109D2, \H109FF>>, <<\H10A40, \H10A48>>,
       <<\H10A7D, \H10A7E>>, <<\H10A9D, \H10A9F>>, <<\H10AEB, \H10AEF>>, <<\H10B58, \H10B5F>>,
       <<\H10B78, \H10B7F>>, <<\H10BA9, \H10BAF>>, <<\H10CFA, \H10CFF>>, <<\H10D30, \H10D39>>,
       <<\H10D40, \H10D49>>, <<\H10E60, \H10E7E>>, <<\H10F1D, \H10F26>>, <<\H10F51, \H10F54>>,
       <<\H10FC5, \H10FCB>>, <<\H11052, \H1106F>>, <<\H110F0, \H110F9>>, <<\H11136, \H1113F>>,
       <<\H111D0, \H111D9>>, <<\H111E1, \H111F4>>, <<\H112F0, \H112F9>>, <<\H11450, \H11459>>,
       <<\H114D0, \H114D9>>, <<\H11650, \H11659>>, <<\H116C0, \H116C9>>, <<\H116D0, \H116E3>>,
       <<\H11730, \H1173B>>, <<\H118E0, \H118F2>>, <<\H11950, \H11959>>, <<\H11BF0, \H11BF9>>,
       <<\H11C50, \H11C6C>>, <<\H11D50, \H11D59>>, <<\H11DA0, \H11DA9>>, <<\H11DE0, \H11DE9>>,
       <<\H11F50, \H11F59>>, <<\H11FC0, \H11FD4>>, <<\H12400, \H1246E>>, <<\H16130, \H16139>>,
       <<\H16A60, \H16A69>>, <<\H16AC0, \H16AC9>>, <<\H16B50, \H16B59>>, <<\H16B5B, \H16B61>>,
       <<\H16D70, \H16D79>>, <<\H16E80, \H16E96>>, <<\H16FF4, \H16FF6>>, <<\H1CCF0, \H1CCF9>>,
       <<\H1D2C0, \H1D2D3>>, <<\H1D2E0, \H1D2F3>>, <<\H1D360, \H1D378>>, <<\H1D7CE, \H1D7FF>>,
       <<\H1E140, \H1E149>>, <<\H1E2F0, \H1E2F9>>, <<\H1E4F0, \H1E4F9>>, <<\H1E5F1, \H1E5FA>>,
       <<\H1E8C7, \H1E8CF>>, <<\H1E950, \H1E959>>, <<\H1EC71, \H1ECAB>>, <<\H1ECAD, \H1ECAF>>,
       <<\H1ECB1, \H1ECB4>>, <<\H1ED01, \H1ED2D>>, <<\H1ED2F, \H1ED3D>>, <<\H1F100, \H1F10C>>,
       <<\H1FBF0, \H1FBF9>> >>

\* core::unicode::White_Space: the ranges beyond ASCII of the Unicode property
\* White_Space
White_Space ==
    << <<\H85, \H85>>, <<\HA0, \HA0>>, <<\H1680, \H1680>>, <<\H2000, \H200A>>,
       <<\H2028, \H2029>>, <<\H202F, \H202F>>, <<\H205F, \H205F>>, <<\H3000, \H3000>> >>

\* char::is_alphabetic: 'a'..='z' | 'A'..='Z', or beyond ASCII and Alphabetic
is_alphabetic(ch) ==
    \/ ch \in Range(LowerLetters) \cup Range(UpperLetters)
    \/ ch > \H7F /\ InRanges(ch, Alphabetic)

\* char::is_numeric: '0'..='9', or beyond ASCII and of category Nd, Nl or No
is_numeric(ch) ==
    \/ ch \in Range(DecDigits)
    \/ ch > \H7F /\ InRanges(ch, N)

\* char::is_alphanumeric: is_alphabetic() || is_numeric()
is_alphanumeric(ch) == is_alphabetic(ch) \/ is_numeric(ch)

\* char::is_whitespace: ' ' | '\x09'..='\x0d', or beyond ASCII and White_Space
is_whitespace(ch) ==
    \/ ch = Cp(" ")
    \/ \H9 <= ch /\ ch <= \HD
    \/ ch > \H7F /\ InRanges(ch, White_Space)

None == [some |-> FALSE]

Some(x) == [some |-> TRUE, val |-> x]

\* mutant: the digit value taken without the radix check
to_digit_unchecked(ch, radix) ==
    IF ch \in Range(DecDigits) THEN Some(IndexOf(DecDigits, ch) - 1)
    ELSE IF ch \in Range(LowerLetters) THEN Some(IndexOf(LowerLetters, ch) + 9)
    ELSE IF ch \in Range(UpperLetters) THEN Some(IndexOf(UpperLetters, ch) + 9)
    ELSE None

\* char::to_digit: 0-9 are 0..9, a-z and A-Z are 10..35; Some only below the radix
to_digit(ch, radix) ==
    LET v == IF ch \in Range(DecDigits) THEN IndexOf(DecDigits, ch) - 1
             ELSE IF ch \in Range(LowerLetters) THEN IndexOf(LowerLetters, ch) + 9
             ELSE IF ch \in Range(UpperLetters) THEN IndexOf(UpperLetters, ch) + 9
             ELSE radix
    IN  IF v < radix THEN Some(v) ELSE None

----------------------------------------------------------------------------
(* u64 *)

LimbBase == 65536

\* the u64 of a small natural number (below 2^31)
U64(n) == <<n % LimbBase, (n \div LimbBase) % LimbBase, 0, 0>>

\* mutant: radix * (number + digit), the sum scaled as a whole
MulAdd_scaled_sum(radix, number, digit) ==
    LET t1 == (number[1] + digit) * radix
        t2 == number[2] * radix + (t1 \div LimbBase)
        t3 == number[3] * radix + (t2 \div LimbBase)
        t4 == number[4] * radix + (t3 \div LimbBase)
    IN  [value |-> <<t1 % LimbBase, t2 % LimbBase, t3 % LimbBase, t4 % LimbBase>>,
         overflow |-> t4 \div LimbBase > 0]

\* radix * number + digit on u64: the wrapped value and whether it overflowed
MulAdd(radix, number, digit) ==
    LET t1 == number[1] * radix + digit
        t2 == number[2] * radix + (t1 \div LimbBase)
        t3 == number[3] * radix + (t2 \div LimbBase)
        t4 == number[4] * radix + (t3 \div LimbBase)
    IN  [value |-> <<t1 % LimbBase, t2 % LimbBase, t3 % LimbBase, t4 % LimbBase>>,
         overflow |-> t4 \div LimbBase > 0]

----------------------------------------------------------------------------
(* Tokens *)

OpenBrace == [t |-> "OpenBrace"]
CloseBrace == [t |-> "CloseBrace"]
OpenParenthesis == [t |-> "OpenParenthesis"]
CloseParenthesis == [t |-> "CloseParenthesis"]
Semicolon == [t |-> "Semicolon"]
IntKeyword == [t |-> "IntKeyword"]
ReturnKeyword == [t |-> "ReturnKeyword"]
Identifier(s) == [t |-> "Identifier", name |-> s]
Integer(n) == [t |-> "Integer", value |-> n]

InvalidData(msg, ch) == [kind |-> "Err", msg |-> msg, ch |-> ch]

Ok(v) == [kind |-> "Ok", val |-> v]

\* mutant: the two parentheses exchanged
primitive_to_token_swapped(c) ==
    CASE c = Cp("{") -> Ok(OpenBrace)
      [] c = Cp("}") -> Ok(CloseBrace)
      [] c = Cp("(") -> Ok(CloseParenthesis)
      [] c = Cp(")") -> Ok(OpenParenthesis)
      [] c = Cp(";") -> Ok(Semicolon)
      [] OTHER -> InvalidData("Unexpected character", c)

\* mutant: the semicolon is missing from the match
primitive_to_token_no_semicolon(c) ==
    CASE c = Cp("{") -> Ok(OpenBrace)
      [] c = Cp("}") -> Ok(CloseBrace)
      [] c = Cp("(") -> Ok(OpenParenthesis)
      [] c = Cp(")") -> Ok(CloseParenthesis)
      [] OTHER -> InvalidData("Unexpected character", c)

primitive_to_token(c) ==
    CASE c = Cp("{") -> Ok(OpenBrace)
      [] c = Cp("}") -> Ok(CloseBrace)
      [] c = Cp("(") -> Ok(OpenParenthesis)
      [] c = Cp(")") -> Ok(CloseParenthesis)
      [] c = Cp(";") -> Ok(Semicolon)
      [] OTHER -> InvalidData("Unexpected character", c)

\* mutant: the keywords matched without regard to case of the first letter
string_to_token_anycase(s) ==
    CASE s \in {Str("Int"), Str("int")} -> IntKeyword
      [] s \in {Str("Return"), Str("return")} -> ReturnKeyword
      [] OTHER -> Identifier(s)

string_to_token(s) ==
    CASE s = Str("Int") -> IntKeyword
      [] s = Str("Return") -> ReturnKeyword
      [] OTHER -> Identifier(s)

----------------------------------------------------------------------------
(* Tokenizer states *)

ConsumeNextChar == [tag |-> "ConsumeNextChar"]
ReadIdentifier(s) == [tag |-> "ReadIdentifier", s |-> s]
ReadInteger(number, radix) == [tag |-> "ReadInteger", number |-> number, radix |-> radix]

\* Tokenizer::new
new == ConsumeNextChar

----------------------------------------------------------------------------
(* One pass of the while loop body: what the match on (self.state, ch) does. *)
(* Proceed: the tokens pushed, self.state after the arm's in-place writes,   *)
(* and new_state; Raise: the `?` returned an error; Panic: overflow panic.   *)

Proceed(push, st, new_state) ==
    [kind |-> "Proceed", push |-> push, state |-> st, new_state |-> new_state]

\* mutant: the error is dropped and the character skipped
Raise_skipped(e) == [kind |-> "Proceed", push |-> <<>>, state |-> ConsumeNextChar, new_state |-> None]

Raise(e) == [kind |-> "Raise", err |-> e]

Panic == [kind |-> "Panic"]

\* tokens.push(primitive_to_token(ch)?) after the pushes `before`
PushPrimitive(before, ch, st, new_state) ==
    LET r == primitive_to_token(ch)
    IN  IF r.kind = "Ok" THEN Proceed(before \o <<r.val>>, st, new_state)
        ELSE Raise(r)

\* mutant: a digit other than 0 starts an identifier
ConsumeNextCharArm_digit_starts_identifier(st, ch) ==
    IF ch \in Punctuation THEN PushPrimitive(<<>>, ch, st, None)
    ELSE IF ch = Cp("0") THEN Proceed(<<>>, st, Some(ReadInteger(U64(0), None)))
    ELSE IF is_alphanumeric(ch) \/ ch = Cp("_") THEN Proceed(<<>>, st, Some(ReadIdentifier(<<ch>>)))
    ELSE IF is_whitespace(ch) THEN Proceed(<<>>, st, None)
    ELSE Raise(InvalidData("Encountered unknown character", ch))

ConsumeNextCharArm(st, ch) ==
    IF ch \in Punctuation THEN PushPrimitive(<<>>, ch, st, None)
    ELSE IF ch = Cp("0") THEN Proceed(<<>>, st, Some(ReadInteger(U64(0), None)))
    ELSE IF ch \in {DecDigits[i] : i \in 2..10}
        THEN Proceed(<<>>, st, Some(ReadInteger(U64(to_digit(ch, 10).val), Some(10))))
    ELSE IF is_alphabetic(ch) \/ ch = Cp("_") THEN Proceed(<<>>, st, Some(ReadIdentifier(<<ch>>)))
    ELSE IF is_whitespace(ch) THEN Proceed(<<>>, st, None)
    ELSE Raise(InvalidData("Encountered unknown character", ch))

\* mutant: whitespace pushes the identifier but leaves the state as it is
ReadIdentifierArm_no_reset(st, ch) ==
    IF ch \in Punctuation
        THEN PushPrimitive(<<string_to_token(st.s)>>, ch, st, Some(ConsumeNextChar))
    ELSE IF is_alphanumeric(ch) \/ ch = Cp("_")
        THEN Proceed(<<>>, ReadIdentifier(Append(st.s, ch)), None)
    ELSE IF is_whitespace(ch) THEN Proceed(<<string_to_token(st.s)>>, st, None)
    ELSE Raise(InvalidData("Encountered unknown character", ch))

ReadIdentifierArm(st, ch) ==
    IF ch \in Punctuation
        THEN PushPrimitive(<<string_to_token(st.s)>>, ch, st, Some(ConsumeNextChar))
    ELSE IF is_alphanumeric(ch) \/ ch = Cp("_")
        THEN Proceed(<<>>, ReadIdentifier(Append(st.s, ch)), None)
    ELSE IF is_whitespace(ch)
        THEN Proceed(<<string_to_token(st.s)>>, st, Some(ConsumeNextChar))
    ELSE Raise(InvalidData("Encountered unknown character", ch))

\* the arm '0'...'9' | 'a'...'f' | 'o' | 'x' of ReadInteger
DigitClass == Range(DecDigits) \cup {LowerLetters[i] : i \in 1..6} \cup Chars("ox")

\* mutant: a decimal digit after the leading 0 is folded in but the radix stays unset
Accumulate_radix_left_unset(checks, st, ch) ==
    IF st.radix.some
    THEN LET radix == st.radix.val
             digit == to_digit(ch, radix)
         IN  IF digit.some
             THEN LET r == MulAdd(radix, st.number, digit.val)
                  IN  IF r.overflow /\ checks THEN Panic
                      ELSE Proceed(<<>>, ReadInteger(r.value, st.radix), None)
             ELSE Raise(InvalidData("Unexpected character", ch))
    ELSE IF ch \in Range(DecDigits)
         THEN LET r == MulAdd(10, st.number, to_digit(ch, 10).val)
              IN  IF r.overflow /\ checks THEN Panic
                  ELSE Proceed(<<>>, ReadInteger(r.value, None), None)
    ELSE IF ch = Cp("b") THEN Proceed(<<>>, ReadInteger(st.number, Some(2)), None)
    ELSE IF ch = Cp("o") THEN Proceed(<<>>, ReadInteger(st.number, Some(8)), None)
    ELSE IF ch = Cp("x") THEN Proceed(<<>>, ReadInteger(st.number, Some(16)), None)
    ELSE Raise(InvalidData("Unexpected character", ch))

\* mutant: a digit after the leading 0 makes the literal octal, as in C
Accumulate_leading_zero_octal(checks, st, ch) ==
    IF st.radix.some
    THEN LET radix == st.radix.val
             digit == to_digit(ch, radix)
         IN  IF digit.some
             THEN LET r == MulAdd(radix, st.number, digit.val)
                  IN  IF r.overflow /\ checks THEN Panic
                      ELSE Proceed(<<>>, ReadInteger(r.value, st.radix), None)
             ELSE Raise(InvalidData("Unexpected character", ch))
    ELSE IF ch \in Range(DecDigits)
         THEN LET r == MulAdd(8, st.number, to_digit(ch, 10).val)
              IN  IF r.overflow /\ checks THEN Panic
                  ELSE Proceed(<<>>, ReadInteger(r.value, Some(8)), None)
    ELSE IF ch = Cp("b") THEN Proceed(<<>>, ReadInteger(st.number, Some(2)), None)
    ELSE IF ch = Cp("o") THEN Proceed(<<>>, ReadInteger(st.number, Some(8)), None)
    ELSE IF ch = Cp("x") THEN Proceed(<<>>, ReadInteger(st.number, Some(16)), None)
    ELSE Raise(InvalidData("Unexpected character", ch))

Accumulate(checks, st, ch) ==
    IF st.radix.some
    THEN LET radix == st.radix.val
             digit == to_digit(ch, radix)
         IN  IF digit.some
             THEN LET r == MulAdd(radix, st.number, digit.val)
                  IN  IF r.overflow /\ checks THEN Panic
                      ELSE Proceed(<<>>, ReadInteger(r.value, st.radix), None)
             ELSE Raise(InvalidData("Unexpected character", ch))
    ELSE IF ch \in Range(DecDigits)
         THEN LET r == MulAdd(10, st.number, to_digit(ch, 10).val)
              IN  IF r.overflow /\ checks THEN Panic
                  ELSE Proceed(<<>>, ReadInteger(r.value, Some(10)), None)
    ELSE IF ch = Cp("b") THEN Proceed(<<>>, ReadInteger(st.number, Some(2)), None)
    ELSE IF ch = Cp("o") THEN Proceed(<<>>, ReadInteger(st.number, Some(8)), None)
    ELSE IF ch = Cp("x") THEN Proceed(<<>>, ReadInteger(st.number, Some(16)), None)
    ELSE Raise(InvalidData("Unexpected character", ch))

\* mutant: whitespace pushes the number but leaves the state as it is
ReadIntegerArm_no_reset(checks, st, ch) ==
    IF ch \in Punctuation
        THEN PushPrimitive(<<Integer(st.number)>>, ch, st, Some(ConsumeNextChar))
    ELSE IF ch \in DigitClass THEN Accumulate(checks, st, ch)
    ELSE IF is_whitespace(ch) THEN Proceed(<<Integer(st.number)>>, st, None)
    ELSE IF is_alphabetic(ch) THEN Raise(InvalidData("Unexpected character", ch))
    ELSE Raise(InvalidData("Encountered unknown character", ch))

\* mutant: the alphabetic arm is missing, every other character is "unknown"
ReadIntegerArm_one_error_kind(checks, st, ch) ==
    IF ch \in Punctuation
        THEN PushPrimitive(<<Integer(st.number)>>, ch, st, Some(ConsumeNextChar))
    ELSE IF ch \in DigitClass THEN Accumulate(checks, st, ch)
    ELSE IF is_whitespace(ch)
        THEN Proceed(<<Integer(st.number)>>, st, Some(ConsumeNextChar))
    ELSE Raise(InvalidData("Encountered unknown character", ch))

ReadIntegerArm(checks, st, ch) ==
    IF ch \in Punctuation
        THEN PushPrimitive(<<Integer(st.number)>>, ch, st, Some(ConsumeNextChar))
    ELSE IF ch \in DigitClass THEN Accumulate(checks, st, ch)
    ELSE IF is_whitespace(ch)
        THEN Proceed(<<Integer(st.number)>>, st, Some(ConsumeNextChar))
    ELSE IF is_alphabetic(ch) THEN Raise(InvalidData("Unexpected character", ch))
    ELSE Raise(InvalidData("Encountered unknown character", ch))

\* mutant: only a pending identifier is dumped at the end of a line
EndOfLineFlush_identifier_only(st) ==
    CASE st.tag = "ReadIdentifier" -> <<string_to_token(st.s)>>
      [] OTHER -> <<>>

\* mutant: a number is dumped at the end of a line only if it is not 0
EndOfLineFlush_nonzero_only(st) ==
    CASE st.tag = "ReadIdentifier" -> <<string_to_token(st.s)>>
      [] st.tag = "ReadInteger" /\ st.number # U64(0) -> <<Integer(st.number)>>
      [] OTHER -> <<>>

\* the match at the end of a line
EndOfLineFlush(st) ==
    CASE st.tag = "ReadIdentifier" -> <<string_to_token(st.s)>>
      [] st.tag = "ReadInteger" -> <<Integer(st.number)>>
      [] OTHER -> <<>>

----------------------------------------------------------------------------
(* The stream *)

\* bytes of the stream that do not decode as UTF-8
InvalidUtf8 == -1

\* BufRead::lines: the pieces between "\n", without the "\n" and a "\r" before it;
\* nothing after a final "\n".  A piece that holds InvalidUtf8 is an item that
\* is an Err.
RECURSIVE Lines(_)
Lines(s) ==
    IF s = <<>> THEN <<>>
    ELSE LET ends == {i \in 1..Len(s) : s[i] = Cp("\n")}
             k == IF ends = {} THEN Len(s) + 1
                  ELSE CHOOSE i \in ends : \A j \in ends : i <= j
             raw == SubSeq(s, 1, k - 1)
             line == IF k <= Len(s) /\ raw # <<>> /\ raw[Len(raw)] = Cp("\r")
                     THEN SubSeq(raw, 1, Len(raw) - 1) ELSE raw
         IN  <<line>> \o Lines(SubSeq(s, k + 1, Len(s)))

SeqsUpTo(S, n) == UNION {[1..k -> S] : k \in 0..n}

Prefixed(p, S) == {p \o s : s \in S}

GenericAlphabet == Chars(";{ \n019bxfFg_@")

PunctAlphabet == Punctuation \cup Chars(" \t\n")

HexAlphabet == Range(DecDigits) \cup {LowerLetters[i] : i \in 1..6}
                   \cup {UpperLetters[i] : i \in 1..6}

BinaryAlphabet == Chars("0129ab")

OctalAlphabet == Range(DecDigits) \cup Chars("f")

IdentAlphabet == Chars("Inti1_\n")

\* U+00E9, U+4E9C and U+1C89 are alphabetic, U+00B2 and U+06F3 numeric, U+3000
\* whitespace
UnicodeAlphabet ==
    Chars("\f1x;\n") \cup {\HE9, \H4E9C, \H1C89, \HB2, \H6F3, \H3000, InvalidUtf8}

\* after a first digit, in each radix, each character of the digit class
RadixExamples ==
    {Str(p) \o <<c>> : p \in {"1", "01", "0b1", "0o1", "0x1"}, c \in DigitClass}

Examples ==
    { Str("Return 0;"),
      Str("Return"),
      Str("return"),
      Str("Returns"),
      Str("Retur"),
      Str("int x;"),
      Str("Int main() {\n Return 0x2a;\r\n}\n"),
      Str("Int1"),
      Str("foo"),
      Str("fo\no"),
      Str("4\n2"),
      Str("0x1F"),
      Str("0x1f"),
      Str("0b101"),
      Str("0o17"),
      Str("017"),
      Str("42"),
      Str("0b2"),
      Str("x;0b2;y"),
      Str("x\n1a\ny"),
      Str("n 1"),
      Str("_1\nn"),
      Str("0c"),
      Str("0d"),
      Str("0e"),
      Str("0o;"),
      Str("0o 1"),
      Str("0b\t0x\n0o}"),
      Str("0b\f0x\n0o}"),
      (Str("0b\f0x") \o <<\HA0>> \o Str("0o") \o <<\H85>> \o Str("0x") \o <<\HB>> \o Str("1 2")),
      Str("a\fb"),
      Str("a") \o <<\H3000>> \o Str("b"),
      Str("1") \o <<\H2003>> \o Str(";"),
      Str("1") \o <<\H2028, \H386, \H3A9>>,
      Str("1") \o <<\H386>>,
      Str("x") \o <<\H9E6>> \o Str(" 1"),
      <<\H490, \H6F0, \H180, \H202F, \H3AC, \H2167>>,
      <<\H2167, \H10D40, \H363>> \o Str(";") \o <<\H3007, \H16EE>>,
      Str("1") \o <<\H1C89>>,
      Str("1") \o <<\H1E4F0>>,
      Str("x") \o <<\H10D40>>,
      Str("x") \o <<\H1E4F0>>,
      <<\H363, \HA7CB, \H13460>> \o Str(" 0") \o <<\H2EBF0>>,
      Str("0a"),
      Str("(\f)\n ;"),
      (<<\HDF, \HAA, \HBD>> \o Str("_") \o <<\HC0, \HB3>> \o Str(" ") \o <<\HB5, \HFF>>),
      (Str("12\n2") \o <<InvalidUtf8>> \o Str("\n;")),
      (Str("x;\n") \o <<InvalidUtf8>> \o Str("\n")),
      Str("0xffffffffffffffff"),
      Str("0x10000000000000000;"),
      Str("0x10000000000000000"),
      Str("18446744073709551615"),
      Str("18446744073709551616") }

Inputs ==
    SeqsUpTo(GenericAlphabet, MaxLen)
        \cup SeqsUpTo(PunctAlphabet, MaxPunctLen)
        \cup SeqsUpTo(Range(DecDigits), MaxDigits)
        \cup Prefixed(Str("0b"), SeqsUpTo(BinaryAlphabet, MaxDigits))
        \cup Prefixed(Str("0o"), SeqsUpTo(OctalAlphabet, MaxDigits))
        \cup Prefixed(Str("0x"), SeqsUpTo(HexAlphabet, MaxHexDigits))
        \cup SeqsUpTo(IdentAlphabet, MaxIdentLen)
        \cup SeqsUpTo(UnicodeAlphabet, MaxLen)
        \cup RadixExamples
        \cup Examples

----------------------------------------------------------------------------
(* lex: Tokenizer::new(), then tokenize(stream) *)

Pending == [kind |-> "Pending"]

Panicked == [kind |-> "Panic"]

\* the io::Error of a line that is not valid UTF-8
Utf8Error == [kind |-> "Err", msg |-> "stream did not contain valid UTF-8"]

Init ==
    /\ stream \in Inputs
    /\ overflow_checks \in BOOLEAN
    /\ lineno = 0
    /\ ci = 0
    /\ state = new
    /\ tokens = <<>>
    /\ origin = <<>>
    /\ pc = "lines"
    /\ ret = Pending
    /\ calls = 1

CurLine == Lines(stream)[lineno]

\* for line in stream.lines(): the next item is Ok(line)
NextLine ==
    /\ pc = "lines"
    /\ lineno < Len(Lines(stream))
    /\ InvalidUtf8 \notin Range(Lines(stream)[lineno + 1])
    /\ lineno' = lineno + 1
    /\ ci' = 0
    /\ pc' = "chars"
    /\ UNCHANGED <<stream, overflow_checks, state, tokens, origin, ret, calls>>

\* for line in stream.lines(): the next item is an Err, which `line?` returns;
\* tokens is dropped and self.state stays as it is
LineError ==
    /\ pc = "lines"
    /\ lineno < Len(Lines(stream))
    /\ InvalidUtf8 \in Range(Lines(stream)[lineno + 1])
    /\ ret' = Utf8Error
    /\ pc' = "done"
    /\ UNCHANGED <<stream, overflow_checks, lineno, ci, state, tokens, origin, calls>>

\* mutant: the items are inserted at the front
Push_front(v, items) == items \o v

\* Vec::push of the items, in order
Push(v, items) == v \o items

\* the while loop body for the next character, with the update of self.state after it
Step(o) ==
    /\ IF o.kind = "Proceed"
       THEN /\ tokens' = Push(tokens, o.push)
            /\ origin' = origin \o [i \in 1..Len(o.push) |-> <<lineno, ci + 1>>]
            /\ state' = IF o.new_state.some THEN o.new_state.val ELSE o.state
            /\ ci' = ci + 1
            /\ UNCHANGED <<pc, ret>>
       ELSE /\ ret' = IF o.kind = "Raise" THEN o.err ELSE Panicked
            /\ pc' = "done"
            /\ UNCHANGED <<tokens, origin, state, ci>>
    /\ UNCHANGED <<stream, overflow_checks, lineno, calls>>

ConsumeNextCharStep ==
    /\ pc = "chars"
    /\ ci < Len(CurLine)
    /\ state.tag = "ConsumeNextChar"
    /\ Step(ConsumeNextCharArm(state, CurLine[ci + 1]))

ReadIdentifierStep ==
    /\ pc = "chars"
    /\ ci < Len(CurLine)
    /\ state.tag = "ReadIdentifier"
    /\ Step(ReadIdentifierArm(state, CurLine[ci + 1]))

ReadIntegerStep ==
    /\ pc = "chars"
    /\ ci < Len(CurLine)
    /\ state.tag = "ReadInteger"
    /\ Step(ReadIntegerArm(overflow_checks, state, CurLine[ci + 1]))

\* chars.next() is None: dump the state, reset it, go to the next line
EndOfLine ==
    /\ pc = "chars"
    /\ ci = Len(CurLine)
    /\ tokens' = Push(tokens, EndOfLineFlush(state))
    /\ origin' = origin \o [i \in 1..Len(EndOfLineFlush(state)) |-> <<lineno, ci + 1>>]
    /\ state' = ConsumeNextChar
    /\ pc' = "lines"
    /\ UNCHANGED <<stream, overflow_checks, lineno, ci, ret, calls>>

\* stream.lines() is exhausted: Ok(tokens)
Return ==
    /\ pc = "lines"
    /\ lineno = Len(Lines(stream))
    /\ ret' = Ok(tokens)
    /\ pc' = "done"
    /\ UNCHANGED <<stream, overflow_checks, lineno, ci, state, tokens, origin, calls>>

Next ==
    \/ NextLine
    \/ LineError
    \/ ConsumeNextCharStep
    \/ ReadIdentifierStep
    \/ ReadIntegerStep
    \/ EndOfLine
    \/ Return

Spec == Init /\ [][Next]_vars

----------------------------------------------------------------------------
(* A caller that keeps the Tokenizer: tokenize takes &mut self, so it can be *)
(* called again after it has returned; self.state is what the last call left. *)

ReuseInputs == {Str("y"), Str("1"), Str(";"), Str("b\n"), <<InvalidUtf8>>}

TokenizeAgain ==
    /\ pc = "done"
    /\ ret.kind \in {"Ok", "Err"}
    /\ calls < MaxCalls
    /\ stream' \in ReuseInputs
    /\ calls' = calls + 1
    /\ lineno' = 0
    /\ ci' = 0
    /\ tokens' = <<>>
    /\ origin' = <<>>
    /\ pc' = "lines"
    /\ ret' = Pending
    /\ UNCHANGED <<overflow_checks, state>>

NextReuse ==
    \/ Next
    \/ TokenizeAgain

ReuseSpec == Init /\ [][NextReuse]_vars

----------------------------------------------------------------------------
(* What the specification expects, stated apart from the code above *)

PunctuationToken(c) ==
    [t |-> CASE c = Cp("{") -> "OpenBrace"
             [] c = Cp("}") -> "CloseBrace"
             [] c = Cp("(") -> "OpenParenthesis"
             [] c = Cp(")") -> "CloseParenthesis"
             [] c = Cp(";") -> "Semicolon"]

RECURSIVE PunctuationTokens(_)
PunctuationTokens(s) ==
    IF s = <<>> THEN <<>>
    ELSE (IF Head(s) \in Punctuation THEN <<PunctuationToken(Head(s))>> ELSE <<>>)
             \o PunctuationTokens(Tail(s))

\* the whitespace characters that can stand inside a line
LineWhitespace ==
    Chars("\t\f\r ") \cup {\HB, \H85, \HA0, \H1680} \cup (\H2000..\H200A)
        \cup {\H2028, \H2029, \H202F, \H205F, \H3000}

IsWhitespaceOrBreak(c) == c \in LineWhitespace \cup Chars("\n")

OnlyPunctuationAndWhitespace(s) ==
    \A i \in DOMAIN s : s[i] \in Punctuation \/ IsWhitespaceOrBreak(s[i])

HexLower == Str("0123456789abcdef")

HexUpper == Str("0123456789ABCDEF")

DigitValueOf(c) ==
    IF c \in Range(HexLower) THEN IndexOf(HexLower, c) - 1 ELSE IndexOf(HexUpper, c) - 1

DigitsBelow(radix) == {c \in Range(HexLower) \cup Range(HexUpper) : DigitValueOf(c) < radix}

RECURSIVE PositionalValue(_, _)
PositionalValue(ds, radix) ==
    IF ds = <<>> THEN 0
    ELSE PositionalValue(SubSeq(ds, 1, Len(ds) - 1), radix) * radix + DigitValueOf(ds[Len(ds)])

\* s is the prefix followed by one or more of the digits, few enough that the
\* positional value stays below 2^31
IsLiteral(s, prefix, radix, digits) ==
    /\ Len(s) > Len(prefix)
    /\ SubSeq(s, 1, Len(prefix)) = prefix
    /\ \A i \in (Len(prefix) + 1)..Len(s) : s[i] \in digits
    /\ Len(s) - Len(prefix) <= (CASE radix = 2 -> 30 [] radix = 8 -> 10
                                  [] radix = 10 -> 9 [] radix = 16 -> 7)

LiteralValue(s, prefix, radix) == PositionalValue(SubSeq(s, Len(prefix) + 1, Len(s)), radix)

KeywordOrIdentifier(s) ==
    IF s = Str("Int") THEN [t |-> "IntKeyword"]
    ELSE IF s = Str("Return") THEN [t |-> "ReturnKeyword"]
    ELSE [t |-> "Identifier", name |-> s]

\* the step about to be taken reads a character
AtChar == pc = "chars" /\ ci < Len(CurLine)

Ch == CurLine[ci + 1]

----------------------------------------------------------------------------
(* Claims *)

\* C1: an input made only of the five punctuation characters, whitespace and
\* line breaks never fails, and lex returns exactly the punctuation tokens of
\* its punctuation characters, in input order.
C1_PunctuationOnly ==
    OnlyPunctuationAndWhitespace(stream) =>
        /\ ret.kind \in {"Pending", "Ok"}
        /\ pc = "done" => ret = [kind |-> "Ok", val |-> PunctuationTokens(stream)]

C1_Witness ==
    /\ pc = "done"
    /\ OnlyPunctuationAndWhitespace(stream)
    /\ stream = Str("(\f)\n ;")
    /\ ret = [kind |-> "Ok",
              val |-> <<[t |-> "OpenParenthesis"], [t |-> "CloseParenthesis"], [t |-> "Semicolon"]>>]

\* C2: 0x followed by hexadecimal digits (0-9, a-f, A-F) gives exactly one
\* Integer token carrying the base-16 value; "0x1F" gives [Integer(31)].
C2_HexLiteral ==
    (pc = "done" /\ IsLiteral(stream, Str("0x"), 16, DigitsBelow(16))) =>
        ret = [kind |-> "Ok",
               val |-> <<[t |-> "Integer", value |-> U64(LiteralValue(stream, Str("0x"), 16))]>>]

\* C3: a one-lexeme decimal literal, binary literal (0b, digits 0-1) or octal
\* literal (0o, digits 0-7) gives exactly one Integer token whose value is the
\* positional value of its digits in that radix; the largest u64 is still exact.
C3_RadixLiterals ==
    pc = "done" =>
        /\ IsLiteral(stream, <<>>, 10, DigitsBelow(10)) =>
               ret = [kind |-> "Ok",
                      val |-> <<[t |-> "Integer", value |-> U64(LiteralValue(stream, <<>>, 10))]>>]
        /\ IsLiteral(stream, Str("0b"), 2, DigitsBelow(2)) =>
               ret = [kind |-> "Ok",
                      val |-> <<[t |-> "Integer", value |-> U64(LiteralValue(stream, Str("0b"), 2))]>>]
        /\ IsLiteral(stream, Str("0o"), 8, DigitsBelow(8)) =>
               ret = [kind |-> "Ok",
                      val |-> <<[t |-> "Integer", value |-> U64(LiteralValue(stream, Str("0o"), 8))]>>]
        /\ stream = Str("18446744073709551615") =>
               ret = [kind |-> "Ok",
                      val |-> <<[t |-> "Integer", value |-> <<65535, 65535, 65535, 65535>>]>>]

C3_Witness ==
    /\ pc = "done"
    /\ stream = Str("0o17")
    /\ ret = [kind |-> "Ok", val |-> <<[t |-> "Integer", value |-> <<15, 0, 0, 0>>]>>]

\* C4: a completed identifier lexeme becomes IntKeyword only when spelled
\* exactly "Int", ReturnKeyword only when spelled exactly "Return", and
\* Identifier(lexeme) otherwise, whatever completes it; "int x;" gives
\* [Identifier("int"), Identifier("x"), Semicolon].
C4_KeywordsExactSpelling ==
    [][/\ (state.tag = "ReadIdentifier" /\ Len(tokens') > Len(tokens)) =>
              tokens'[Len(tokens) + 1] = KeywordOrIdentifier(state.s)
       /\ (pc' = "done" /\ stream = Str("int x;")) =>
              ret' = [kind |-> "Ok",
                      val |-> <<[t |-> "Identifier", name |-> Str("int")],
                                [t |-> "Identifier", name |-> Str("x")],
                                [t |-> "Semicolon"]>>]
       /\ (pc' = "done" /\ stream = Str("Int")) =>
              ret' = [kind |-> "Ok", val |-> <<[t |-> "IntKeyword"]>>]
       /\ (pc' = "done" /\ stream = Str("Return")) =>
              ret' = [kind |-> "Ok", val |-> <<[t |-> "ReturnKeyword"]>>]
       /\ (pc' = "done" /\ stream = Str("Int1")) =>
              ret' = [kind |-> "Ok",
                      val |-> <<[t |-> "Identifier", name |-> Str("Int1")]>>]
       /\ (pc' = "done" /\ stream = Str("foo")) =>
              ret' = [kind |-> "Ok",
                      val |-> <<[t |-> "Identifier", name |-> Str("foo")]>>]
      ]_vars

C4_Witness ==
    /\ pc = "done"
    /\ stream = Str("int x;")
    /\ ret = [kind |-> "Ok",
              val |-> <<[t |-> "Identifier", name |-> Str("int")],
                        [t |-> "Identifier", name |-> Str("x")],
                        [t |-> "Semicolon"]>>]

\* the digits the claim lists as invalid for a radix
InvalidForRadix(c, radix) ==
    \/ radix = 2 /\ c \in Chars("23456789")
    \/ radix = 8 /\ c \in Chars("89")
    \/ radix \in {2, 8, 10} /\ c \in Chars("abcdef")

\* C5: with a radix set, reading a digit that is not valid for it (2-9 under
\* radix 2, 8-9 under radix 8, a-f under radix 2, 8 or 10) ends the call with
\* the error "Unexpected character" for that digit, the number and the tokens
\* untouched; "0b2" fails.
C5_InvalidDigitFails ==
    [][/\ (AtChar /\ state.tag = "ReadInteger" /\ state.radix.some
              /\ InvalidForRadix(Ch, state.radix.val)) =>
              /\ pc' = "done"
              /\ ret' = [kind |-> "Err", msg |-> "Unexpected character", ch |-> Ch]
              /\ state' = state
              /\ tokens' = tokens
       /\ (pc' = "done" /\ stream = Str("0b2")) => ret'.kind = "Err"
      ]_vars

C5_Witness ==
    /\ pc = "done"
    /\ stream = Str("0b2")
    /\ state.tag = "ReadInteger" /\ state.radix = [some |-> TRUE, val |-> 2]
    /\ ret = [kind |-> "Err", msg |-> "Unexpected character", ch |-> Cp("2")]

LowerDigitsBelow(radix) == {c \in Range(HexLower) : DigitValueOf(c) < radix}

IsLetter(c) ==
    \/ c \in Range(LowerLetters) \cup Range(UpperLetters)
    \/ c > \H7F /\ InRanges(c, Alphabetic)

IsNumeral(c) ==
    \/ c \in Range(DecDigits)
    \/ c > \H7F /\ InRanges(c, N)

\* the character about to be read is one the state machine has no transition for
InvalidHere ==
    /\ AtChar
    /\ Ch \notin Punctuation
    /\ Ch \notin LineWhitespace
    /\ CASE state.tag = "ConsumeNextChar" ->
                ~(Ch \in Range(DecDigits) \/ IsLetter(Ch) \/ Ch = Cp("_"))
         [] state.tag = "ReadIdentifier" ->
                ~(IsNumeral(Ch) \/ IsLetter(Ch) \/ Ch = Cp("_"))
         [] state.tag = "ReadInteger" ->
                IF state.radix.some THEN Ch \notin LowerDigitsBelow(state.radix.val)
                ELSE Ch \notin Range(DecDigits) \cup Chars("box")

\* C6: a lexical error ends the call at the first invalid character: the step
\* that reads it returns the error alone (no token sequence), exactly the
\* steps on invalid characters return a lexical error (the one other error is
\* that of a line that cannot be read), and no step follows a return.
C6_ErrorAborts ==
    [][/\ ret.kind = "Pending"
       /\ InvalidHere =>
              /\ pc' = "done"
              /\ ret'.kind = "Err"
              /\ ret' = [kind |-> "Err", msg |-> ret'.msg, ch |-> Ch]
              /\ ci' = ci
       /\ (ret'.kind = "Err" /\ ret' # Utf8Error) => InvalidHere
       /\ (pc' = "done" /\ stream \in {<<\H1C89>>, Str("x") \o <<\H1E4F0>>,
                                       Str("x") \o <<\H10D40>>}) =>
              ret'.kind = "Ok"
       /\ ret' = Utf8Error => (pc = "lines" /\ pc' = "done")
      ]_vars

C6_Witness ==
    /\ pc = "done"
    /\ stream = Str("x;0b2;y")
    /\ tokens = <<[t |-> "Identifier", name |-> Str("x")], [t |-> "Semicolon"]>>
    /\ ci = 4
    /\ ret = [kind |-> "Err", msg |-> "Unexpected character", ch |-> Cp("2")]

\* the token of the lexeme in progress, if any
PendingLexeme(st) ==
    IF st.tag = "ReadIdentifier" THEN <<KeywordOrIdentifier(st.s)>>
    ELSE IF st.tag = "ReadInteger" THEN <<[t |-> "Integer", value |-> st.number]>>
    ELSE <<>>

\* C7: at every end of line the lexeme in progress, if any, is pushed as one
\* token and the state is reset, so the first character of every line is read
\* in ConsumeNextChar; "fo" then "o" gives [Identifier("fo"), Identifier("o")].
C7_EndOfLineFlush ==
    [][/\ (pc = "chars" /\ ci = Len(CurLine)) =>
              /\ tokens' = tokens \o PendingLexeme(state)
              /\ state' = [tag |-> "ConsumeNextChar"]
       /\ (pc' = "chars" /\ ci' = 0) => state' = [tag |-> "ConsumeNextChar"]
       /\ (pc' = "done" /\ stream = Str("fo\no")) =>
              ret' = [kind |-> "Ok",
                      val |-> <<[t |-> "Identifier", name |-> Str("fo")],
                                [t |-> "Identifier", name |-> Str("o")]>>]
       /\ (pc' = "done" /\ stream = Str("4\n2")) =>
              ret' = [kind |-> "Ok",
                      val |-> <<[t |-> "Integer", value |-> <<4, 0, 0, 0>>],
                                [t |-> "Integer", value |-> <<2, 0, 0, 0>>]>>]
      ]_vars

C7_Witness ==
    /\ pc = "done"
    /\ stream = Str("fo\no")
    /\ lineno = 2
    /\ ret = [kind |-> "Ok",
              val |-> <<[t |-> "Identifier", name |-> Str("fo")],
                        [t |-> "Identifier", name |-> Str("o")]>>]

\* C8: a punctuation or whitespace character read while a lexeme is in
\* progress ends it: the lexeme's token is pushed, then the punctuation token
\* if the character is punctuation, and the state is ConsumeNextChar;
\* "Return 0;" gives [ReturnKeyword, Integer(0), Semicolon].
C8_TerminatorsFlush ==
    [][/\ (AtChar /\ state.tag # "ConsumeNextChar"
              /\ (Ch \in Punctuation \/ Ch \in LineWhitespace)) =>
              /\ tokens' = tokens \o PendingLexeme(state)
                               \o (IF Ch \in Punctuation THEN <<PunctuationToken(Ch)>> ELSE <<>>)
              /\ state' = [tag |-> "ConsumeNextChar"]
              /\ ret' = [kind |-> "Pending"]
       /\ (pc' = "done" /\ stream = Str("Return 0;")) =>
              ret' = [kind |-> "Ok",
                      val |-> <<[t |-> "ReturnKeyword"],
                                [t |-> "Integer", value |-> <<0, 0, 0, 0>>],
                                [t |-> "Semicolon"]>>]
       /\ (pc' = "done" /\ stream \in {Str("a\fb"), Str("a") \o <<\H3000>> \o Str("b")}) =>
              ret' = [kind |-> "Ok",
                      val |-> <<[t |-> "Identifier", name |-> Str("a")],
                                [t |-> "Identifier", name |-> Str("b")]>>]
      ]_vars

C8_Witness ==
    /\ pc = "done"
    /\ stream = Str("Return 0;")
    /\ ret = [kind |-> "Ok",
              val |-> <<[t |-> "ReturnKeyword"],
                        [t |-> "Integer", value |-> <<0, 0, 0, 0>>],
                        [t |-> "Semicolon"]>>]

IsPrefix(a, b) == Len(a) <= Len(b) /\ SubSeq(b, 1, Len(a)) = a

PositionLeq(p, q) == p[1] < q[1] \/ (p[1] = q[1] /\ p[2] <= q[2])

\* C9: every step leaves the previous token sequence as a prefix of the new
\* one, and the tokens stand in the order of the input positions whose step
\* pushed them.
C9_AppendOnly ==
    [][/\ IsPrefix(tokens, tokens')
       /\ Len(origin') = Len(tokens')
       /\ \A i \in 1..(Len(origin') - 1) : PositionLeq(origin'[i], origin'[i + 1])
      ]_vars

C9_Witness ==
    /\ pc = "done"
    /\ lineno = 3
    /\ Len(tokens) = 9
    /\ tokens[7] = [t |-> "Integer", value |-> <<42, 0, 0, 0>>]
    /\ origin[6] = <<2, 8>> /\ origin[7] = <<2, 13>> /\ origin[8] = <<2, 13>>
    /\ origin[9] = <<3, 1>>
    /\ ret = [kind |-> "Ok", val |-> tokens]

\* the scheduling of a sequential call: a step that can be taken is taken
FairSpec == Spec /\ WF_vars(Next)

\* C11 (termination part): under FairSpec every call comes to its end.
Terminates == <>(pc = "done")

\* C11 (order part): a character step takes exactly the next character of the
\* line, and a line step takes exactly the next line.
ConsumedInOrder ==
    [][/\ lineno' \in {lineno, lineno + 1}
       /\ lineno' = lineno + 1 => (pc = "lines" /\ ci' = 0)
       /\ lineno' = lineno => ci' \in {ci, ci + 1}
       /\ (AtChar /\ pc' # "done") => ci' = ci + 1
      ]_vars

\* C11: every call ends by returning the token sequence or an error
\* (stated on the final result: a call that has ended has returned Ok or Err).
C11_FinishesWithResult == pc = "done" => ret.kind \in {"Ok", "Err"}

\* C12: the state is ConsumeNextChar at construction and after every step
\* (character or end of line) that pushes at least one token.
C12_IdleAfterEmit ==
    /\ state = [tag |-> "ConsumeNextChar"]
    /\ [][Len(tokens') > Len(tokens) => state' = [tag |-> "ConsumeNextChar"]]_vars

C12_Witness ==
    /\ pc = "chars"
    /\ stream = Str("n 1")
    /\ ci = 2
    /\ tokens = <<[t |-> "Identifier", name |-> Str("n")]>>
    /\ origin = <<(<<1, 2>>)>>
    /\ state = [tag |-> "ConsumeNextChar"]

IdentifierStart(c) == IsLetter(c) \/ c = Cp("_")

IdentifierPart(c) == IsLetter(c) \/ IsNumeral(c) \/ c = Cp("_")

WellFormedName(name) ==
    /\ name # <<>>
    /\ IdentifierStart(name[1])
    /\ name[1] \notin Range(DecDigits)
    /\ \A i \in DOMAIN name : IdentifierPart(name[i])

\* C13: the string of every ReadIdentifier state is non-empty, starts with an
\* alphabetic character or "_", never with a digit 0-9, and holds only
\* alphabetic and numeric characters and "_"; every Identifier token pushed
\* or returned has such a name, never "Int" or "Return".
C13_IdentifierShape ==
    /\ state.tag = "ReadIdentifier" => WellFormedName(state.s)
    /\ \A i \in DOMAIN tokens :
           tokens[i].t = "Identifier" =>
               /\ WellFormedName(tokens[i].name)
               /\ tokens[i].name \notin {Str("Int"), Str("Return")}
    /\ ret.kind = "Ok" => ret.val = tokens

\* the letter numbers U+2167, U+3007 and U+16EE are alphabetic and numeric
C13_Witness ==
    /\ stream = <<\H2167, \H10D40, \H363>> \o Str(";") \o <<\H3007, \H16EE>>
    /\ tokens = <<[t |-> "Identifier", name |-> <<\H2167, \H10D40, \H363>>],
                  [t |-> "Semicolon"]>>
    /\ state = [tag |-> "ReadIdentifier", s |-> <<\H3007, \H16EE>>]

RadixUnset(st) == st.tag = "ReadInteger" /\ ~st.radix.some

\* C14: ReadInteger with the radix unset is entered only by reading "0" in
\* ConsumeNextChar, always holds the number 0, and lasts one step: the next
\* step sets a radix, leaves ReadInteger, or ends the call with an error.
C14_RadixUnsetTransient ==
    [][/\ RadixUnset(state') => state'.number = <<0, 0, 0, 0>>
       /\ (RadixUnset(state') /\ ~RadixUnset(state)) =>
              (AtChar /\ state.tag = "ConsumeNextChar" /\ Ch = Cp("0"))
       /\ RadixUnset(state) =>
              \/ state'.tag = "ReadInteger" /\ state'.radix.some /\ ret' = [kind |-> "Pending"]
              \/ state' = [tag |-> "ConsumeNextChar"] /\ ret' = [kind |-> "Pending"]
              \/ pc' = "done" /\ ret'.kind = "Err"
      ]_vars

C14_Witness ==
    /\ stream = Str(";09")
    /\ pc = "chars"
    /\ ci = 3
    /\ state = [tag |-> "ReadInteger", number |-> <<9, 0, 0, 0>>,
                radix |-> [some |-> TRUE, val |-> 10]]

\* C15: with the radix unset, "b", "o", "x" set the radix 2, 8, 16 and leave
\* the number 0 and the tokens as they are; a digit 0-9 sets the radix 10 and
\* becomes the decimal value; a, c, d, e, f end the call with "Unexpected
\* character"; "017" is the decimal 17.
C15_AfterLeadingZero ==
    [][/\ (AtChar /\ RadixUnset(state) /\ Ch \in Chars("box")) =>
              /\ state' = [tag |-> "ReadInteger", number |-> <<0, 0, 0, 0>>,
                           radix |-> [some |-> TRUE,
                                      val |-> CASE Ch = Cp("b") -> 2 [] Ch = Cp("o") -> 8 [] Ch = Cp("x") -> 16]]
              /\ tokens' = tokens
              /\ ret' = [kind |-> "Pending"]
       /\ (AtChar /\ RadixUnset(state) /\ Ch \in Range(DecDigits)) =>
              /\ state' = [tag |-> "ReadInteger",
                           number |-> <<DigitValueOf(Ch), 0, 0, 0>>,
                           radix |-> [some |-> TRUE, val |-> 10]]
              /\ tokens' = tokens
              /\ ret' = [kind |-> "Pending"]
       /\ (AtChar /\ RadixUnset(state) /\ Ch \in Chars("acdef")) =>
              /\ pc' = "done"
              /\ ret' = [kind |-> "Err", msg |-> "Unexpected character", ch |-> Ch]
       /\ (pc' = "done" /\ stream = Str("017")) =>
              ret' = [kind |-> "Ok", val |-> <<[t |-> "Integer", value |-> <<17, 0, 0, 0>>]>>]
      ]_vars

C15_Witness ==
    /\ pc = "done"
    /\ stream = Str("017")
    /\ ret = [kind |-> "Ok", val |-> <<[t |-> "Integer", value |-> <<17, 0, 0, 0>>]>>]

\* the class 0-9, a-f, o, x of the claim
DigitOrPrefixClass == Range(HexLower) \cup Chars("ox")

\* C16: in ReadInteger, a letter outside 0-9, a-f, o, x ends the call with
\* "Unexpected character" and a character that is neither a letter, whitespace,
\* punctuation nor of that class ends it with "Encountered unknown character";
\* in ConsumeNextChar and ReadIdentifier every character without a transition
\* ends it with "Encountered unknown character".
C16_ErrorKinds ==
    [][/\ (AtChar /\ state.tag = "ReadInteger" /\ IsLetter(Ch) /\ Ch \notin DigitOrPrefixClass) =>
              /\ pc' = "done"
              /\ ret' = [kind |-> "Err", msg |-> "Unexpected character", ch |-> Ch]
       /\ (AtChar /\ state.tag = "ReadInteger" /\ ~IsLetter(Ch) /\ Ch \notin DigitOrPrefixClass
              /\ Ch \notin Punctuation /\ Ch \notin LineWhitespace) =>
              /\ pc' = "done"
              /\ ret' = [kind |-> "Err", msg |-> "Encountered unknown character", ch |-> Ch]
       /\ (InvalidHere /\ state.tag \in {"ConsumeNextChar", "ReadIdentifier"}) =>
              /\ pc' = "done"
              /\ ret' = [kind |-> "Err", msg |-> "Encountered unknown character", ch |-> Ch]
       /\ (pc' = "done" /\ stream = (Str("1") \o <<\HE9>>)) =>
              ret' = [kind |-> "Err", msg |-> "Unexpected character", ch |-> \HE9]
       /\ (pc' = "done" /\ stream = (Str("1") \o <<\H386>>)) =>
              ret' = [kind |-> "Err", msg |-> "Unexpected character", ch |-> \H386]
       /\ (pc' = "done" /\ stream = (Str("1") \o <<\HB2>>)) =>
              ret' = [kind |-> "Err", msg |-> "Encountered unknown character", ch |-> \HB2]
       /\ (pc' = "done" /\ stream = (Str("1") \o <<\H1C89>>)) =>
              ret' = [kind |-> "Err", msg |-> "Unexpected character", ch |-> \H1C89]
       /\ (pc' = "done" /\ stream = (Str("1") \o <<\H1E4F0>>)) =>
              ret' = [kind |-> "Err", msg |-> "Encountered unknown character", ch |-> \H1E4F0]
      ]_vars

C16_Witness ==
    /\ pc = "done"
    /\ stream = (Str("1") \o <<\H1C89>>)
    /\ state.tag = "ReadInteger"
    /\ ret = [kind |-> "Err", msg |-> "Unexpected character", ch |-> \H1C89]

\* C17: the error of primitive_to_token never occurs in a call: a step on a
\* punctuation character, the only kind primitive_to_token is called with,
\* pushes its token without an error, and every "Unexpected character" error
\* is one of the ReadInteger arms, raised for a digit-class character or a letter.
C17_PrimitiveErrorUnreachable ==
    [][/\ (AtChar /\ Ch \in Punctuation) =>
              /\ ret' = [kind |-> "Pending"]
              /\ Len(tokens') > Len(tokens)
              /\ tokens'[Len(tokens')] = PunctuationToken(Ch)
       /\ (ret'.kind = "Err" /\ ret'.msg = "Unexpected character") =>
              /\ state.tag = "ReadInteger"
              /\ Ch \notin Punctuation
              /\ Ch \in DigitOrPrefixClass \/ IsLetter(Ch)
      ]_vars

C17_Witness ==
    /\ pc = "chars"
    /\ lineno = 1
    /\ ci = 10
    /\ Len(stream) > 20
    /\ tokens = <<[t |-> "IntKeyword"],
                  [t |-> "Identifier", name |-> Str("main")],
                  [t |-> "OpenParenthesis"],
                  [t |-> "CloseParenthesis"]>>

\* C18 (second half): a later call on the same Tokenizer returns what a call
\* on a fresh Tokenizer returns for the same stream.
LaterCallAsFresh ==
    (pc = "done" /\ calls > 1) =>
        /\ stream = Str("y") =>
               ret = [kind |-> "Ok", val |-> <<[t |-> "Identifier", name |-> Str("y")]>>]
        /\ stream = Str("1") =>
               ret = [kind |-> "Ok", val |-> <<[t |-> "Integer", value |-> <<1, 0, 0, 0>>]>>]
        /\ stream = Str(";") => ret = [kind |-> "Ok", val |-> <<[t |-> "Semicolon"]>>]
        /\ stream = Str("b\n") =>
               ret = [kind |-> "Ok", val |-> <<[t |-> "Identifier", name |-> Str("b")]>>]
        /\ stream = <<InvalidUtf8>> => ret = Utf8Error

\* C18: whenever a call has returned, with tokens or with an error, the state
\* is ConsumeNextChar, and a later call on the same Tokenizer returns what a
\* call on a fresh one returns.
C18_IdleOnReturn ==
    /\ (pc = "done" /\ ret.kind \in {"Ok", "Err"}) => state = [tag |-> "ConsumeNextChar"]
    /\ LaterCallAsFresh

RECURSIVE StripZeros(_)
StripZeros(ds) == IF ds # <<>> /\ Head(ds) = Cp("0") THEN StripZeros(Tail(ds)) ELSE ds

\* 2^64 - 1 in decimal
MaxU64Decimal ==
    Str("18446744073709551615")

\* a and b are digit strings of one length, and a is the larger number
DigitsGreater(a, b) ==
    \E i \in DOMAIN a :
        /\ DigitValueOf(a[i]) > DigitValueOf(b[i])
        /\ \A j \in 1..(i - 1) : a[j] = b[j]

IsDigitString(s, digits) == s # <<>> /\ \A i \in DOMAIN s : s[i] \in digits

\* the mathematical value of the literal is above 2^64 - 1
DecimalExceedsU64(s) ==
    LET d == StripZeros(s)
    IN  Len(d) > Len(MaxU64Decimal)
            \/ (Len(d) = Len(MaxU64Decimal) /\ DigitsGreater(d, MaxU64Decimal))

HexExceedsU64(ds) == Len(StripZeros(ds)) > 16

\* C19: a literal whose mathematical value does not fit a u64 is never
\* returned as an Integer (the call fails instead), and a literal that is
\* returned carries its mathematical value.
C19_NoWrappedValue ==
    pc = "done" =>
        /\ (IsDigitString(stream, Range(DecDigits)) /\ DecimalExceedsU64(stream)) =>
               ret.kind # "Ok"
        /\ (Len(stream) > 2 /\ SubSeq(stream, 1, 2) = Str("0x")
                /\ IsDigitString(SubSeq(stream, 3, Len(stream)), Range(HexLower))
                /\ HexExceedsU64(SubSeq(stream, 3, Len(stream)))) =>
               ret.kind # "Ok"
        /\ (IsLiteral(stream, <<>>, 10, DigitsBelow(10)) /\ ret.kind = "Ok") =>
               ret.val = <<[t |-> "Integer", value |-> U64(LiteralValue(stream, <<>>, 10))]>>
        /\ (stream = MaxU64Decimal /\ ret.kind = "Ok") =>
               ret.val = <<[t |-> "Integer", value |-> <<65535, 65535, 65535, 65535>>]>>

\* the last character read was the "b", "o" or "x" of a radix prefix
JustReadPrefix ==
    /\ pc = "chars"
    /\ state.tag = "ReadInteger"
    /\ state.radix.some
    /\ ci >= 2
    /\ CurLine[ci - 1] = Cp("0")
    /\ \/ CurLine[ci] = Cp("b") /\ state.radix.val = 2
       \/ CurLine[ci] = Cp("o") /\ state.radix.val = 8
       \/ CurLine[ci] = Cp("x") /\ state.radix.val = 16

\* C20: a radix prefix 0b, 0o or 0x directly followed by whitespace,
\* punctuation or the end of the line is accepted: the step pushes
\* Integer(0) (and the punctuation token) and reports no error; the inputs
\* "0b", "0o" and "0x" return [Integer(0)].
C20_BarePrefixAccepted ==
    [][/\ (JustReadPrefix /\ (ci = Len(CurLine) \/ Ch \in Punctuation \/ Ch \in LineWhitespace)) =>
              /\ tokens' = tokens \o <<[t |-> "Integer", value |-> <<0, 0, 0, 0>>]>>
                               \o (IF ci < Len(CurLine) /\ Ch \in Punctuation
                                   THEN <<PunctuationToken(Ch)>> ELSE <<>>)
              /\ ret' = [kind |-> "Pending"]
              /\ state' = [tag |-> "ConsumeNextChar"]
       /\ (pc' = "done"
              /\ stream \in {Str("0b"), Str("0o"), Str("0x")}) =>
              ret' = [kind |-> "Ok", val |-> <<[t |-> "Integer", value |-> <<0, 0, 0, 0>>]>>]
      ]_vars

C20_Witness ==
    /\ pc = "done"
    /\ stream = Str("0b\f0x\n0o}")
    /\ ret = [kind |-> "Ok",
              val |-> <<[t |-> "Integer", value |-> <<0, 0, 0, 0>>],
                        [t |-> "Integer", value |-> <<0, 0, 0, 0>>],
                        [t |-> "Integer", value |-> <<0, 0, 0, 0>>],
                        [t |-> "CloseBrace"]>>]

====
